---- MODULE Spec2Model ----
(***************************************************************************)
(* A model of slack_export_viewer.py: the attachment resolution pipeline   *)
(* (get_file_path, download_file, process_message) and the per-channel     *)
(* pipeline (process_channel, generate_channel_page,                       *)
(* generate_channel_transcript, write_file_reports, main).                 *)
(*                                                                         *)
(* Python strings that the code inspects by prefix, substring or extension *)
(* (file ids, URLs, file names) are sequences of tokens; a token is a run  *)
(* of characters the code never splits.  Timestamps and modes, which the   *)
(* code only compares for equality or converts with float(), are strings.  *)
(***************************************************************************)
EXTENDS Integers, Sequences, FiniteSets, TLC

\* ------------------------------------------------------------------ bounds
MaxRuns == 2
MaxFileMsgs == 2
MaxThreadMsgs == 3

\* ------------------------------------------------------------ basic values
\* A key that is not present in a JSON object.
Absent == "<absent>"
\* The absent 'name' key of a file record, as a token sequence.
NoName == <<Absent>>

Channels == {"general", "random"}

Last(s) == s[Len(s)]
Front(s) == SubSeq(s, 1, Len(s) - 1)

\* str.startswith
StartsWith(s, p) == Len(p) <= Len(s) /\ SubSeq(s, 1, Len(p)) = p

\* 'needle' in s, for a needle that is one token
Contains(s, needle) == \E i \in 1..Len(s) : s[i] = needle

\* ------------------------------------------------------------------- URLs
UrlX == <<"https://", "files.", "slack.com", "/x", ".png">>
UrlY == <<"https://", "files.", "slack.com", "/y">>
UrlZ == <<"https://", "example.com", "/z", ".png">>
UrlW == <<"ftp://", "files.", "slack.com", "/w", ".bin">>
UrlV == <<"https://", "example.com", "/", "slack.com", "/v", ".png">>
NoUrl == <<>>

ExtTokens == {".png", ".bin"}

\* os.path.splitext(url)[1]
SplitExt(s) == IF Len(s) > 0 /\ Last(s) \in ExtTokens THEN <<Last(s)>> ELSE <<>>

\* hashlib.md5(url.encode()).hexdigest(): the digests of the URLs of the model
md5(url) ==
    CASE url = NoUrl -> <<"d41d8cd98f00b204e9800998ecf8427e">>
      [] url = UrlX -> <<"be3927a5b99c9b2a3b049bbf60c1fbf0">>
      [] url = UrlY -> <<"38f9dfab3c8c009cc5a1e95f12fc7185">>
      [] url = UrlZ -> <<"6b88cce1949ecbcf913f24a79730ab09">>
      [] url = UrlW -> <<"1e5d373e2b3a07f3310595bd828165a2">>
      [] url = UrlV -> <<"93b6a7913dccfa48236c06b6059f170c">>

\* ------------------------------------------------------------------ paths
\* What get_file_path and download_file return: None, a path under
\* output_dir/<channel>/files, or (download_file's pass-through) the URL.
NonePath == [kind |-> "none", channel |-> "", file |-> <<>>]
FilePath(c, fn) == [kind |-> "path", channel |-> c, file |-> fn]
UrlPath(u) == [kind |-> "url", channel |-> "", file |-> u]

\* Python truth value of such a value
Truthy(p) == p.kind # "none" /\ (p.kind = "url" => p.file # <<>>)

\* os.path.relpath(p, os.path.join(output_dir, channel))
relpath(p, c) ==
    IF p.kind = "path"
    THEN IF p.channel = c THEN <<"files/">> \o p.file
         ELSE <<"../", p.channel, "/files/">> \o p.file
    ELSE <<"../", "../">> \o p.file

\* The value of a processed file's 'local_path' key
NoLocalPath == [none |-> TRUE, rel |-> <<>>]
LocalPath(rel) == [none |-> FALSE, rel |-> rel]

\* -------------------------------------------------------------- float(ts)
\* The strings float() converts; for any other string it raises ValueError.
ParsableTs == {"0", "1", "1.0", "2", "3"}
float(ts) ==
    CASE ts = "0" -> 0
      [] ts = "1" -> 1
      [] ts = "1.0" -> 1
      [] ts = "2" -> 2
      [] ts = "3" -> 3

\* --------------------------------------------------------- get_file_path
\* The names in a files directory that start with file_id.
Matches(file_id, dir) == {e.file : e \in {x \in dir : StartsWith(x.file, file_id)}}

\* get_file_path returns the first name of os.listdir that starts with
\* file_id; os.listdir's order is arbitrary, so any matching name can be the
\* one returned.  A directory that does not exist lists as empty.
get_file_path(file_id, c, dir) ==
    IF Matches(file_id, dir) = {} THEN {NonePath}
    ELSE {FilePath(c, fn) : fn \in Matches(file_id, dir)}

\* ---------------------------------------------------------- download_file
\* What the transport and the file system can do to one fetch.
\*   http_error    urlopen raises HTTPError (4xx, 5xx)
\*   url_error     urlopen raises URLError (DNS, refused)
\*   non200        the response arrives with a status other than 200
\*   timeout       urlopen raises TimeoutError: no response within 10 seconds
\*   io_error      OSError while the body is copied to local_path
\*   empty         the body is empty: the written file has size 0
\*   ok            the body is written and is not empty
TransportFailures ==
    {"http_error", "url_error", "non200", "timeout", "io_error"}
Outcomes == TransportFailures \cup {"empty", "ok"}

\* A fault: the written file is not looked at after the copy.
Raised_Unverified(outcome) ==
    CASE outcome = "http_error" -> "HTTPError"
      [] outcome \in {"url_error", "non200"} -> "URLError"
      [] outcome = "timeout" -> "TimeoutError"
      [] outcome = "io_error" -> "OSError"
      [] outcome \in {"empty", "ok"} -> "none"

\* The exception class an outcome raises inside download_file's try blocks.
Raised(outcome) ==
    CASE outcome = "http_error" -> "HTTPError"
      [] outcome \in {"url_error", "non200"} -> "URLError"
      [] outcome = "timeout" -> "TimeoutError"
      [] outcome = "io_error" -> "OSError"
      [] outcome = "empty" -> "Exception"
      [] outcome = "ok" -> "none"

\* The classes an except clause must name to catch an exception of class cls.
Bases(cls) ==
    CASE cls = "HTTPError" -> {"HTTPError", "URLError", "OSError", "Exception"}
      [] cls = "URLError" -> {"URLError", "OSError", "Exception"}
      [] cls = "TimeoutError" -> {"TimeoutError", "OSError", "Exception"}
      [] cls = "OSError" -> {"OSError", "Exception"}
      [] cls = "Exception" -> {"Exception"}
      [] cls = "none" -> {}

\* A fault: the outer try without its except Exception clause.
OuterHandlers_Missing == {}

\* The except clauses of the inner try and of the outer try.
InnerHandlers == {"HTTPError", "URLError", "TimeoutError"}
OuterHandlers == {"Exception"}

\* What open(local_path, 'wb') and copyfileobj leave at local_path.
FileLeft(outcome) ==
    CASE outcome = "ok" -> "full"
      [] outcome = "io_error" -> "partial"
      [] outcome = "empty" -> "empty"
      [] OTHER -> "none"

\* A fault: the display name comes before the file_id.
Filename_NameFirst(file_id, original_name, url) ==
    IF original_name # <<>>
    THEN original_name \o <<"-">> \o file_id
    ELSE file_id \o (IF SplitExt(url) # <<>> THEN SplitExt(url) ELSE <<".unknown">>)

\* The destination file name.
Filename(file_id, original_name, url) ==
    IF original_name # <<>>
    THEN file_id \o <<"-">> \o original_name
    ELSE file_id \o (IF SplitExt(url) # <<>> THEN SplitExt(url) ELSE <<".unknown">>)

DownloadResult(path, success, escaped, written, track, failed, requested) ==
    [path |-> path, success |-> success, escaped |-> escaped, written |-> written,
     track |-> track, failed |-> failed, requested |-> requested]

\* download_file(url, file_id, channel, original_name) in a files directory
\* dir, where existing is what its get_file_path call returns and outcome is
\* what the fetch does.  The result: the returned pair (path, success);
\* escaped, when an exception leaves the function instead; written, the
\* files left in the directory (each with its name, its content and, for
\* the history, the file_id it was written for); track, whether
\* channel_files[channel][file_id]
\* is set to path; failed, whether url is added to failed_downloads;
\* requested, whether urlopen was called.
download_file(url, file_id, channel, original_name, existing, outcome) ==
    IF url = <<>> \/ ~(StartsWith(url, <<"http://">>) \/ StartsWith(url, <<"https://">>))
    THEN DownloadResult(UrlPath(url), TRUE, FALSE, {}, FALSE, FALSE, FALSE)
    ELSE IF ~(Contains(url, "slack.com") \/ Contains(url, "slack-edge.com"))
    THEN DownloadResult(UrlPath(url), TRUE, FALSE, {}, FALSE, FALSE, FALSE)
    ELSE IF existing # NonePath
    THEN DownloadResult(existing, TRUE, FALSE, {}, TRUE, FALSE, FALSE)
    ELSE LET filename == Filename(file_id, original_name, url)
             local_path == FilePath(channel, filename)
             left == FileLeft(outcome)
             written == IF left = "none" THEN {}
                        ELSE {[file |-> filename, content |-> left, owner |-> file_id]}
             cls == Raised(outcome)
         IN  IF cls = "none"
             THEN DownloadResult(local_path, TRUE, FALSE, written, TRUE, FALSE, TRUE)
             ELSE IF InnerHandlers \cap Bases(cls) # {}
             THEN DownloadResult(NonePath, FALSE, FALSE, written, FALSE, FALSE, TRUE)
             ELSE IF OuterHandlers \cap Bases(cls) # {}
             THEN DownloadResult(NonePath, FALSE, FALSE, written, FALSE, TRUE, TRUE)
             ELSE DownloadResult(NonePath, FALSE, TRUE, written, FALSE, FALSE, TRUE)

\* -------------------------------------------------------- process_message
\* file_info.get('name', 'Unnamed file')
NameOf(file_info) == IF file_info.name = NoName THEN <<"Unnamed file">> ELSE file_info.name

\* The file_id of one file of a message: its id, or for a file nested in an
\* attachment block that has no id, the MD5 digest of its url_private.
FileId(file_info, is_attachment) ==
    IF file_info.id = <<>> /\ is_attachment THEN md5(file_info.url_private)
    ELSE file_info.id

\* A fault: the records get the default timestamp, not the message's.
LogRecord_DefaultTs(ts, file_id, mode) ==
    [timestamp |-> "0", file_id |-> file_id, mode |-> mode]

\* One record of channel_missing_files / channel_downloaded_files
LogRecord(ts, file_id, mode) == [timestamp |-> ts, file_id |-> file_id, mode |-> mode]

\* A fault: a processed_file whose failure_reason is never set.
Processed_NoReason(file_info, file_id, local_path, download_failed, failure_reason) ==
    [id |-> file_id, url_private |-> file_info.url_private, name |-> file_info.name,
     mode |-> file_info.mode, local_path |-> local_path,
     download_failed |-> download_failed, failure_reason |-> NoName]

\* processed_file: the copy of file_info with the resolution keys
Processed(file_info, file_id, local_path, download_failed, failure_reason) ==
    [id |-> file_id, url_private |-> file_info.url_private, name |-> file_info.name,
     mode |-> file_info.mode, local_path |-> local_path,
     download_failed |-> download_failed, failure_reason |-> failure_reason]

\* A fault: the URL and the mode are looked at before the files directory.
Branch_ModeFirst(existing, url, mode) ==
    IF url = <<>> \/ mode \in {"tombstone", "hidden_by_limit"} THEN "skipped"
    ELSE IF existing # NonePath THEN "exists"
    ELSE "download"

\* The branch one iteration of process_message's loop takes: the file is in
\* the files directory; or it has no URL or a mode that says it is gone; or
\* download_file is called.
Branch(existing, url, mode) ==
    IF existing # NonePath THEN "exists"
    ELSE IF url = <<>> \/ mode \in {"tombstone", "hidden_by_limit"} THEN "skipped"
    ELSE "download"

NoDownload == DownloadResult(NonePath, FALSE, FALSE, {}, FALSE, FALSE, FALSE)

\* A fault: the failure_reason of a file that is not fetched is left empty.
SkipReason_Empty(mode) == <<>>

\* f'File {mode if mode else "URL missing"}'
SkipReason(mode) == <<"File ", IF mode # "" THEN mode ELSE "URL missing">>

\* One iteration of process_message's loop over all_files, for a message
\* with timestamp ts in channel c; existing is what get_file_path returns
\* (download_file's own get_file_path call reads the same directory and
\* returns the same) and outcome what a fetch does.  The result:
\* the processed_file, the record appended to the downloaded log or to the
\* missing log (a sequence of zero or one record each), download_file's
\* result when it is called (call), and the branch taken.
ResolveFile(file_info, is_attachment, ts, c, existing, outcome) ==
    LET file_id == FileId(file_info, is_attachment)
        mode == file_info.mode
        url == file_info.url_private
        branch == Branch(existing, url, mode)
    IN  IF branch = "exists"
        THEN [file |-> Processed(file_info, file_id, LocalPath(relpath(existing, c)),
                                 FALSE, NoName),
              downloaded |-> <<LogRecord(ts, file_id, "exists")>>,
              missing |-> <<>>, called |-> FALSE, call |-> NoDownload,
              branch |-> "exists"]
        ELSE IF branch = "skipped"
        THEN [file |-> Processed(file_info, file_id, NoLocalPath, TRUE, SkipReason(mode)),
              downloaded |-> <<>>,
              missing |-> <<LogRecord(ts, file_id, IF mode # "" THEN mode ELSE "url_missing")>>,
              called |-> FALSE, call |-> NoDownload,
              branch |-> "skipped"]
        ELSE LET call == download_file(url, file_id, c, NameOf(file_info), existing, outcome)
             IN  IF call.success /\ Truthy(call.path)
                 THEN [file |-> Processed(file_info, file_id,
                                          LocalPath(relpath(call.path, c)), FALSE, NoName),
                       downloaded |-> <<LogRecord(ts, file_id, "downloaded")>>,
                       missing |-> <<>>, called |-> TRUE, call |-> call,
                       branch |-> "downloaded"]
                 ELSE [file |-> Processed(file_info, file_id, NoLocalPath, TRUE,
                                          <<"Download failed">>),
                       downloaded |-> <<>>,
                       missing |-> <<LogRecord(ts, file_id, "download_failed")>>,
                       called |-> TRUE, call |-> call,
                       branch |-> "download_failed"]

\* ------------------------------------------------------------ sorted(...)
\* A fault: a sort that puts a message before the earlier messages of the
\* same key.
RECURSIVE StableOrder_Unstable(_, _)
StableOrder_Unstable(keys, n) ==
    IF n = 0 THEN <<>>
    ELSE LET prev == StableOrder_Unstable(keys, n - 1)
             k == Cardinality({i \in 1..(n - 1) : keys[prev[i]] < keys[n]})
         IN  SubSeq(prev, 1, k) \o <<n>> \o SubSeq(prev, k + 1, n - 1)

\* The indices 1..n of keys in ascending order of key, equal keys in index
\* order: Python's sort is stable.
RECURSIVE StableOrder(_, _)
StableOrder(keys, n) ==
    IF n = 0 THEN <<>>
    ELSE LET prev == StableOrder(keys, n - 1)
             k == Cardinality({i \in 1..(n - 1) : keys[prev[i]] <= keys[n]})
         IN  SubSeq(prev, 1, k) \o <<n>> \o SubSeq(prev, k + 1, n - 1)

\* sorted(msgs, key=lambda x: float(x['ts']))
SortByTs(msgs) ==
    LET ord == StableOrder([i \in 1..Len(msgs) |-> float(msgs[i].ts)], Len(msgs))
    IN  [i \in 1..Len(msgs) |-> msgs[ord[i]]]

\* sorted(log, key=lambda x: float(x['timestamp']))
SortByTimestamp(log) ==
    LET ord == StableOrder([i \in 1..Len(log) |-> float(log[i].timestamp)], Len(log))
    IN  [i \in 1..Len(log) |-> log[ord[i]]]

\* ------------------------------------------------------------- renderers
\* msg.get('thread_ts') is set and not empty
HasThreadKey(m) == m.thread_ts # Absent /\ m.thread_ts # ""

\* A message the renderers skip at top level: a thread reply
IsReply(m) == HasThreadKey(m) /\ m.thread_ts # m.ts

\* A fault: every message with a thread key is skipped at top level, the
\* parent that names itself too.
TopLevel_SkipsParent(messages) == SelectSeq(messages, LAMBDA m : ~HasThreadKey(m))

\* The messages of a list that are rendered at top level, in list order
TopLevel(messages) == SelectSeq(messages, LAMBDA m : ~IsReply(m))

\* A fault: the messages of a thread are not sorted.
RepliesOf_LoadOrder(thread_msgs, thread_ts) ==
    SelectSeq(thread_msgs, LAMBDA m : m.ts # thread_ts)

\* threads[thread_ts] sorted by timestamp, without the messages whose ts is
\* thread_ts
RepliesOf(thread_msgs, thread_ts) ==
    SelectSeq(SortByTs(thread_msgs), LAMBDA m : m.ts # thread_ts)

\* A fault: the thread block is put out for every message whose ts is a
\* thread key, also when the thread has no reply.
Entry_NoReplyCheck(m, threads) ==
    LET in_threads == m.ts \in DOMAIN threads
        replies == IF in_threads
                   THEN SelectSeq(SortByTs(threads[m.ts]), LAMBDA x : x.ts # m.ts)
                   ELSE <<>>
    IN  [msg |-> m, thread_ui |-> in_threads, reply_count |-> Len(replies),
         replies |-> replies]

\* What a renderer puts out for one top-level message: the message, whether
\* a thread block follows it, the reply count shown and the replies shown.
Entry(m, threads) ==
    LET in_threads == m.ts \in DOMAIN threads
        replies == IF in_threads THEN RepliesOf(threads[m.ts], m.ts) ELSE <<>>
    IN  [msg |-> m, thread_ui |-> Len(replies) > 0, reply_count |-> Len(replies),
         replies |-> replies]

\* A fault: the page groups the messages with a thread key by their own
\* timestamp.
GroupThreads_ByTs(messages) ==
    [t \in {messages[i].ts : i \in {j \in 1..Len(messages) : HasThreadKey(messages[j])}}
        |-> SelectSeq(messages, LAMBDA m : HasThreadKey(m) /\ m.ts = t)]

\* generate_channel_page's own grouping of the messages by thread_ts
GroupThreads(messages) ==
    [t \in {messages[i].thread_ts : i \in {j \in 1..Len(messages) : HasThreadKey(messages[j])}}
        |-> SelectSeq(messages, LAMBDA m : m.thread_ts = t)]

\* generate_channel_page: the thread count of the page header and the
\* entries of the page body.
generate_channel_page(messages) ==
    LET threads == GroupThreads(messages)
        top == TopLevel(messages)
    IN  [thread_count |->
            Cardinality({t \in DOMAIN threads :
                            \E i \in 1..Len(threads[t]) : threads[t][i].ts # t}),
         entries |-> [i \in 1..Len(top) |-> Entry(top[i], threads)]]

\* generate_channel_transcript: the entries of the transcript, with the
\* thread map process_channel built while loading.
generate_channel_transcript(messages, threads) ==
    LET top == TopLevel(messages)
    IN  [i \in 1..Len(top) |-> Entry(top[i], threads)]

\* ----------------------------------------------------------------- inputs
File(id, url, name, mode) == [id |-> id, url_private |-> url, name |-> name, mode |-> mode]
Message(ts, thread_ts, text, files, nested) ==
    [ts |-> ts, thread_ts |-> thread_ts, text |-> text, files |-> files,
     attachments |-> nested]

NoId == <<>>
IdF1 == <<"F1">>
IdF12 == <<"F1", "2">>
IdF2 == <<"F2">>
IdF3 == <<"F3">>
NameA == <<"a", ".png">>

\* The file records of the exports: a pair <<file_info, is_attachment>>.
\* SeriesPool: the records that exports combine in several messages.
SeriesPool ==
    { <<File(IdF12, UrlY, NameA, ""), FALSE>>,
      <<File(NoId, UrlX, NoName, ""), FALSE>>,
      <<File(NoId, UrlX, NoName, ""), TRUE>>,
      <<File(IdF1, UrlX, NameA, "tombstone"), FALSE>> }

\* CorePool: the records of the exports that are processed more than once
\* in a run or that share a name with a file of the other channel.
CorePool ==
    SeriesPool \cup { <<File(IdF1, UrlX, NameA, ""), FALSE>> }

FilePool ==
    CorePool \cup
    { <<File(NoId, NoUrl, NoName, "tombstone"), FALSE>>,
      <<File(IdF2, NoUrl, NameA, "hidden_by_limit"), FALSE>>,
      <<File(IdF2, NoUrl, NameA, ""), FALSE>>,
      <<File(IdF2, NoUrl, NameA, "external"), FALSE>>,
      <<File(IdF3, UrlZ, NameA, ""), FALSE>>,
      <<File(IdF3, UrlW, NameA, ""), FALSE>>,
      <<File(IdF2, UrlY, <<>>, ""), FALSE>>,
      <<File(IdF3, UrlX, <<>>, ""), FALSE>>,
      <<File(IdF3, UrlV, NameA, ""), FALSE>> }

\* The (ts, thread_ts) pairs of the exports
ThreadPool ==
    { <<"1", Absent>>, <<"1", "1">>, <<"2", "1">>, <<"3", "1">>, <<"1.0", "1">>,
      <<Absent, Absent>>, <<"2", "">>, <<"3", "2">> }

TsOfIndex(i) == IF i = 1 THEN "1" ELSE IF i = 2 THEN "2" ELSE "3"

\* A message with one file, direct or nested in an attachment block
FileMessage(i, slot) ==
    IF slot[2] THEN Message(TsOfIndex(i), Absent, i, <<>>, << <<slot[1]>> >>)
    ELSE Message(TsOfIndex(i), Absent, i, <<slot[1]>>, <<>>)

\* One message with any file record, a message with a named file and one
\* with a file without name, or up to MaxFileMsgs messages with the records
\* of SeriesPool
FileExports ==
    {<<FileMessage(1, slot)>> : slot \in FilePool}
    \cup {<<FileMessage(1, <<File(IdF12, UrlY, NameA, ""), FALSE>>),
             FileMessage(2, <<File(IdF3, UrlX, <<>>, ""), FALSE>>)>>}
    \cup UNION {{[i \in 1..n |-> FileMessage(i, slots[i])] : slots \in [1..n -> SeriesPool]}
                  : n \in 2..MaxFileMsgs}

ThreadExports ==
    UNION {{[i \in 1..n |-> Message(keys[i][1], keys[i][2], i, <<>>, <<>>)]
                : keys \in [1..n -> ThreadPool]} : n \in 1..MaxThreadMsgs}

\* The directory of a channel in the export: entries with a name (a day
\* number), whether the name ends in .json, and the messages in the file.
\* The first message is in the first day file, the others in the second;
\* a file that is no day file lies between them.
DayFiles(msgs) ==
    { [day |-> 1, json |-> TRUE, messages |-> SubSeq(msgs, 1, 1)],
      [day |-> 2, json |-> FALSE, messages |-> <<>>],
      [day |-> 3, json |-> TRUE, messages |-> SubSeq(msgs, 2, Len(msgs))] }

\* Exports of the second channel: a message without files, or a message
\* with a file that has the id of a file of the first channel
PlainExport == << Message("1", Absent, 1, <<>>, <<>>) >>
RandomExport ==
    << Message("1", Absent, 1, <<File(IdF1, UrlX, NameA, "")>>, <<>>) >>

Export(general, random) ==
    [c \in Channels |-> IF c = "general" THEN DayFiles(general) ELSE DayFiles(random)]

\* Exports with a message without ts or with a ts that float() rejects
AnomalyExports ==
    { << Message("x", Absent, 1, <<>>, <<>>) >>,
      << Message("1", Absent, 1, <<>>, <<>>),
         Message("x", Absent, 2, <<File(IdF12, UrlY, NameA, "")>>, <<>>) >>,
      << Message("1", Absent, 1, <<>>, <<>>),
         Message(Absent, Absent, 2, <<File(IdF12, UrlY, NameA, "")>>, <<>>) >> }

\* Exports with messages that are in a thread and have files, and with a
\* message that has a direct file and files in two attachment blocks
CompositeExports ==
    { << Message("2", "1", 1, <<File(IdF12, UrlY, NameA, "")>>, <<>>),
         Message("1", "1", 2, <<>>, << <<File(NoId, UrlX, NoName, "")>> >>) >>,
      << Message("1", Absent, 1, <<File(IdF12, UrlY, NameA, "")>>,
                 << <<File(NoId, UrlX, NoName, "")>>,
                    <<File(IdF1, UrlX, NameA, "tombstone"), File(IdF3, UrlZ, NameA, "")>> >>) >> }

\* Command lines that name both channels
TwoChannels == { <<"general", "random">>, <<"random", "general">> }

\* The inputs of the program: the export, the channels named on the
\* command line (args.channels) and the channels that have a directory
\* export_data/<channel>
Inputs ==
    {[export |-> Export(msgs, PlainExport), argv |-> <<"general">>, dirs |-> Channels]
        : msgs \in ThreadExports}
    \cup {[export |-> Export(msgs, PlainExport), argv |-> <<"general">>, dirs |-> Channels]
            : msgs \in FileExports}
    \cup {[export |-> Export(msgs, PlainExport), argv |-> <<"general">>, dirs |-> Channels]
            : msgs \in CompositeExports}
    \cup {[export |-> Export(<<FileMessage(1, slot)>>, PlainExport),
            argv |-> <<"general", "general">>, dirs |-> Channels] : slot \in CorePool}
    \cup {[export |-> Export(<<FileMessage(1, slot)>>, RandomExport),
            argv |-> <<"random", "general">>, dirs |-> Channels] : slot \in CorePool}
    \cup {[export |-> Export(msgs, PlainExport), argv |-> a, dirs |-> Channels]
            : msgs \in AnomalyExports, a \in TwoChannels}
    \cup {[export |-> Export(<<FileMessage(1, <<File(IdF12, UrlY, NameA, ""), FALSE>>)>>,
                             RandomExport),
            argv |-> a, dirs |-> d]
            : a \in TwoChannels, d \in {{"general"}, {"random"}, {}}}

\* ------------------------------------------------------------------ state
VARIABLES
    export,                   \* the export data: channel -> directory of day files
    argv,                     \* args.channels
    data_dirs,                \* the channels with a directory export_data/<channel>
    fs,                       \* output_dir/<channel>/files: channel -> file entries
    out,                      \* output_dir/<channel>: index.html, index.txt, reports
    run,                      \* the number of runs of main started
    pc,                       \* where the run is
    channels_to_process,      \* main: the channels still to process
    processed_channels,       \* main
    channel_files,            \* viewer: channel -> {<<file_id, path>>}
    failed_downloads,         \* viewer
    channel_missing_files,    \* viewer: channel -> log
    channel_downloaded_files, \* viewer: channel -> log
    channel,                  \* process_channel: its argument
    pending,                  \* process_channel: the messages still to load
    all_messages,             \* process_channel
    threads,                  \* process_channel
    messages_with_replies,    \* process_channel
    thread_reply_counts,      \* process_channel
    msg,                      \* process_message: its argument
    all_files,                \* process_message: the files still to resolve
    processed_files,          \* process_message
    call,                     \* process_message: the last download_file call
    fs_start,                 \* history: the files directory when process_channel began
    events,                   \* history: the resolutions of this process_channel call
    history                   \* history: the finished process_channel calls

vars == <<export, argv, data_dirs, fs, out, run, pc, channels_to_process, processed_channels,
          channel_files, failed_downloads, channel_missing_files,
          channel_downloaded_files, channel, pending, all_messages, threads,
          messages_with_replies, thread_reply_counts, msg, all_files,
          processed_files, call, fs_start, events, history>>

inputs == <<export, argv, data_dirs>>
viewer == <<channel_files, failed_downloads, channel_missing_files,
            channel_downloaded_files>>
locals_channel == <<channel, pending, all_messages, threads, messages_with_replies,
                    thread_reply_counts>>
locals_message == <<msg, all_files, processed_files, call>>

NoMessage == Message(Absent, Absent, 0, <<>>, <<>>)
NoCall == [made |-> FALSE, outcome |-> "none", result |-> NoDownload]
NoOutput == [html |-> <<>>, txt |-> <<>>, missing_csv |-> <<>>, downloaded_csv |-> <<>>]

EmptyMap == [x \in {} |-> <<>>]

Init ==
    /\ \E input \in Inputs :
          export = input.export /\ argv = input.argv /\ data_dirs = input.dirs
    /\ fs = [c \in Channels |-> {}]
    /\ out = [c \in Channels |-> NoOutput]
    /\ run = 0
    /\ pc = "exit"
    /\ channels_to_process = <<>>
    /\ processed_channels = <<>>
    /\ channel_files = [c \in Channels |-> {}]
    /\ failed_downloads = {}
    /\ channel_missing_files = [c \in Channels |-> <<>>]
    /\ channel_downloaded_files = [c \in Channels |-> <<>>]
    /\ channel = ""
    /\ pending = <<>>
    /\ all_messages = <<>>
    /\ threads = EmptyMap
    /\ messages_with_replies = {}
    /\ thread_reply_counts = EmptyMap
    /\ msg = NoMessage
    /\ all_files = <<>>
    /\ processed_files = <<>>
    /\ call = NoCall
    /\ fs_start = {}
    /\ events = <<>>
    /\ history = <<>>

\* ---------------------------------------------------------------- actions
\* sorted(os.listdir(channel_data_path))
RECURSIVE SortedDays(_)
SortedDays(days) ==
    IF days = {} THEN <<>>
    ELSE LET d == CHOOSE x \in days : \A y \in days : x <= y
         IN  <<d>> \o SortedDays(days \ {d})

\* The messages process_channel loads, in the order it loads them: the
\* .json files in sorted name order, each file's messages in file order.
RECURSIVE LoadAll(_, _)
LoadAll(dir, days) ==
    IF days = <<>> THEN <<>>
    ELSE LET e == CHOOSE x \in dir : x.day = Head(days)
         IN  (IF e.json THEN e.messages ELSE <<>>) \o LoadAll(dir, Tail(days))

Loaded(dir) == LoadAll(dir, SortedDays({e.day : e \in dir}))

\* The files of the attachment blocks of a message, in block order
RECURSIVE NestedFiles(_)
NestedFiles(attachments) ==
    IF attachments = <<>> THEN <<>>
    ELSE Head(attachments) \o NestedFiles(Tail(attachments))

\* A fault: the files of the attachment blocks come before the direct
\* files.
AllFiles_NestedFirst(m) ==
    [i \in 1..Len(NestedFiles(m.attachments)) |-> <<NestedFiles(m.attachments)[i], TRUE>>]
    \o [i \in 1..Len(m.files) |-> <<m.files[i], FALSE>>]

\* process_message's all_files
AllFiles(m) ==
    [i \in 1..Len(m.files) |-> <<m.files[i], FALSE>>]
    \o [i \in 1..Len(NestedFiles(m.attachments)) |-> <<NestedFiles(m.attachments)[i], TRUE>>]

\* main, from its start to the loop over channels_to_process: a new viewer.
main_start ==
    /\ pc = "exit"
    /\ run < MaxRuns
    /\ run' = run + 1
    /\ channels_to_process' = argv
    /\ processed_channels' = <<>>
    /\ channel_files' = [c \in Channels |-> {}]
    /\ failed_downloads' = {}
    /\ channel_missing_files' = [c \in Channels |-> <<>>]
    /\ channel_downloaded_files' = [c \in Channels |-> <<>>]
    /\ pc' = "main"
    /\ UNCHANGED <<inputs, fs, out, locals_channel, locals_message, fs_start,
                   events, history>>

\* A fault: process_channel does not look whether the channel's directory
\* is in the export.
DataPathExists_Always(c, dirs) == TRUE

\* os.path.exists(channel_data_path)
DataPathExists(c, dirs) == c \in dirs

\* process_channel, up to its loop over the day files; all of
\* process_channel, and main's bookkeeping of the channel, when the channel
\* has no directory in the export
process_channel_start ==
    /\ pc = "main"
    /\ channels_to_process # <<>>
    /\ IF DataPathExists(Head(channels_to_process), data_dirs)
       THEN /\ channel' = Head(channels_to_process)
            /\ pending' = Loaded(export[Head(channels_to_process)])
            /\ all_messages' = <<>>
            /\ threads' = EmptyMap
            /\ messages_with_replies' = {}
            /\ thread_reply_counts' = EmptyMap
            /\ fs_start' = fs[Head(channels_to_process)]
            /\ events' = <<>>
            /\ pc' = "load"
            /\ UNCHANGED <<channels_to_process, processed_channels>>
       ELSE /\ channels_to_process' = Tail(channels_to_process)
            /\ processed_channels' = Append(processed_channels, Head(channels_to_process))
            /\ UNCHANGED <<locals_channel, fs_start, events, pc>>
    /\ UNCHANGED <<inputs, fs, out, run, viewer, locals_message, history>>

\* A fault: the parent of a thread is counted as a reply.
CountReply_CountsParent(counts, thread_ts, ts) ==
    LET counted == IF thread_ts \in DOMAIN counts THEN counts
                   ELSE counts @@ (thread_ts :> 0)
    IN  [counted EXCEPT ![thread_ts] = @ + 1]

\* thread_reply_counts after a message with timestamp ts and thread key
\* thread_ts: the key gets a count, and a reply is counted
CountReply(counts, thread_ts, ts) ==
    LET counted == IF thread_ts \in DOMAIN counts THEN counts
                   ELSE counts @@ (thread_ts :> 0)
    IN  IF thread_ts # ts THEN [counted EXCEPT ![thread_ts] = @ + 1] ELSE counted

\* process_channel's bookkeeping of a processed message: all_messages and
\* the thread maps
Track(processed_msg) ==
    LET thread_ts == processed_msg.thread_ts
    IN  /\ all_messages' = Append(all_messages, processed_msg)
        /\ IF thread_ts # Absent /\ thread_ts # ""
           THEN /\ thread_reply_counts' =
                     CountReply(thread_reply_counts, thread_ts, processed_msg.ts)
                /\ messages_with_replies' =
                     IF thread_ts # processed_msg.ts
                     THEN messages_with_replies \cup {thread_ts}
                     ELSE messages_with_replies
                /\ threads' =
                     IF thread_ts \in DOMAIN threads
                     THEN [threads EXCEPT ![thread_ts] = Append(@, processed_msg)]
                     ELSE threads @@ (thread_ts :> <<processed_msg>>)
           ELSE UNCHANGED <<thread_reply_counts, messages_with_replies, threads>>

\* A fault: a message without ts gets a timestamp that sorts last.
WithDefaultTs_Late(m) == IF m.ts = Absent THEN [m EXCEPT !.ts = "3"] ELSE m

\* if 'ts' not in msg: msg['ts'] = '0'
WithDefaultTs(m) == IF m.ts = Absent THEN [m EXCEPT !.ts = "0"] ELSE m

\* One message of a day file: the default timestamp, and process_message up
\* to its loop over all_files; all of process_message and the bookkeeping
\* when the message has no files
process_message_start ==
    /\ pc = "load"
    /\ pending # <<>>
    /\ LET m == Head(pending)
           m1 == WithDefaultTs(m)
       IN  IF AllFiles(m1) # <<>>
           THEN /\ msg' = m1
                /\ all_files' = AllFiles(m1)
                /\ pc' = "files"
                /\ UNCHANGED <<locals_channel>>
           ELSE /\ Track(m1)
                /\ pending' = Tail(pending)
                /\ UNCHANGED <<channel, msg, all_files, pc>>
    /\ processed_files' = <<>>
    /\ call' = NoCall
    /\ UNCHANGED <<inputs, fs, out, run, channels_to_process, processed_channels,
                   viewer, fs_start, events, history>>

\* A fault: all channels share one files directory.
FilesDir_Shared(files, c) == UNION {files[ch] : ch \in Channels}

\* files_dir = os.path.join(self.output_dir, channel, 'files'): the entries
\* of the files directory of channel c
FilesDir(files, c) == files[c]

\* A fault: the loop writes the resolution keys into the direct file
\* records of the message it was given.
InputAfter_NoCopy(m, i, processed_file) ==
    IF i <= Len(m.files) THEN [m EXCEPT !.files[i] = processed_file] ELSE m

\* The message process_message was given, after the iteration of the loop
\* for its i-th file: processed_file is a copy (file_info.copy()) and
\* processed_msg is a copy (msg.copy()), so the iteration writes nothing
\* into the message.
InputAfter(m, i, processed_file) == m

\* One iteration of process_message's loop over all_files
resolve_file ==
    /\ pc = "files"
    /\ all_files # <<>>
    /\ LET file_info == Head(all_files)[1]
           is_attachment == Head(all_files)[2]
           file_id == FileId(file_info, is_attachment)
       IN  \E existing \in get_file_path(file_id, channel, FilesDir(fs, channel)),
                 outcome \in Outcomes :
             LET r == ResolveFile(file_info, is_attachment, msg.ts, channel, existing, outcome)
                 fetch == r.called /\ r.call.requested
             IN  /\ fs' = [fs EXCEPT ![channel] = @ \cup r.call.written]
                 /\ channel_files' =
                        IF r.call.track
                        THEN [channel_files EXCEPT ![channel] =
                                {p \in @ : p[1] # file_id} \cup {<<file_id, r.call.path>>}]
                        ELSE channel_files
                 /\ failed_downloads' =
                        IF r.call.failed THEN failed_downloads \cup {file_info.url_private}
                        ELSE failed_downloads
                 /\ channel_missing_files' =
                        [channel_missing_files EXCEPT ![channel] = @ \o r.missing]
                 /\ channel_downloaded_files' =
                        [channel_downloaded_files EXCEPT ![channel] = @ \o r.downloaded]
                 /\ processed_files' = Append(processed_files, r.file)
                 /\ msg' = InputAfter(msg, Len(processed_files) + 1, r.file)
                 /\ call' = IF r.called
                            THEN [made |-> TRUE,
                                  outcome |-> IF fetch THEN outcome ELSE "none",
                                  result |-> r.call]
                            ELSE call
                 /\ events' = Append(events,
                        [ts |-> msg.ts, text |-> msg.text, file_info |-> file_info,
                         is_attachment |-> is_attachment, file_id |-> file_id,
                         existing |-> existing,
                         owned |-> \E x \in fs[channel] : x.owner = file_id,
                         branch |-> r.branch,
                         requested |-> r.called /\ r.call.requested,
                         called |-> r.called, call |-> r.call,
                         downloaded |-> r.downloaded, missing |-> r.missing,
                         file |-> r.file])
                 /\ pc' = IF r.call.escaped THEN "crashed" ELSE "files"
    /\ all_files' = Tail(all_files)
    /\ UNCHANGED <<inputs, out, run, channels_to_process, processed_channels,
                   locals_channel, fs_start, history>>

\* A fault: process_message returns the message as it got it.
Resolved_Unchanged(m, files) == m

\* if processed_files: processed_msg['files'] = processed_files
Resolved(m, files) == [m EXCEPT !.files = IF files # <<>> THEN files ELSE @]

\* The end of process_message, and process_channel's bookkeeping of the
\* message
process_message_end ==
    /\ pc = "files"
    /\ all_files = <<>>
    /\ Track(Resolved(msg, processed_files))
    /\ pending' = Tail(pending)
    /\ msg' = NoMessage
    /\ processed_files' = <<>>
    /\ call' = NoCall
    /\ pc' = "load"
    /\ UNCHANGED <<inputs, fs, out, run, channels_to_process, processed_channels,
                   viewer, channel, all_files, fs_start, events, history>>

\* msg['has_replies'] = msg['ts'] in messages_with_replies
Mark(m, with_replies) == [has_replies |-> m.ts \in with_replies] @@ m

\* One row of a report of write_file_reports
CsvRow(r) == [timestamp |-> float(r.timestamp), file_id |-> r.file_id, mode |-> r.mode]

\* write_file_reports writes a report only when its log is not empty
write_report(old, log) ==
    IF log # <<>>
    THEN [i \in 1..Len(log) |-> CsvRow(SortByTimestamp(log)[i])]
    ELSE old

\* process_channel after its loop: sort, mark, render, report; and main's
\* bookkeeping of the channel.  float() raises ValueError in the sort key
\* for a ts it cannot convert; neither process_channel nor main catches it,
\* and the program ends there.
process_channel_finish ==
    /\ pc = "load"
    /\ pending = <<>>
    /\ \A i \in 1..Len(all_messages) : all_messages[i].ts \in ParsableTs
    /\ LET sorted == SortByTs(all_messages)
           marked == [i \in 1..Len(sorted) |-> Mark(sorted[i], messages_with_replies)]
           marked_threads ==
               [t \in DOMAIN threads |->
                   [i \in 1..Len(threads[t]) |-> Mark(threads[t][i], messages_with_replies)]]
           html == generate_channel_page(marked)
           txt == generate_channel_transcript(marked, marked_threads)
       IN  /\ out' = IF all_messages = <<>> THEN out
                     ELSE [out EXCEPT ![channel] =
                             [html |-> <<html>>, txt |-> <<txt>>,
                              missing_csv |->
                                 write_report(@.missing_csv, channel_missing_files[channel]),
                              downloaded_csv |->
                                 write_report(@.downloaded_csv,
                                              channel_downloaded_files[channel])]]
           /\ history' = Append(history,
                  [run |-> run, channel |-> channel, fs_start |-> fs_start,
                   events |-> events, loaded |-> all_messages, messages |-> marked,
                   thread_reply_counts |-> thread_reply_counts,
                   messages_with_replies |-> messages_with_replies])
    /\ channels_to_process' = Tail(channels_to_process)
    /\ processed_channels' = Append(processed_channels, channel)
    /\ channel' = ""
    /\ all_messages' = <<>>
    /\ threads' = EmptyMap
    /\ messages_with_replies' = {}
    /\ thread_reply_counts' = EmptyMap
    /\ fs_start' = {}
    /\ events' = <<>>
    /\ pc' = "main"
    /\ UNCHANGED <<inputs, fs, run, viewer, pending, locals_message>>

\* all_messages.sort(key=lambda x: float(x['ts'])) when float() raises
\* ValueError: the exception leaves process_channel and main
process_channel_abort ==
    /\ pc = "load"
    /\ pending = <<>>
    /\ \E i \in 1..Len(all_messages) : all_messages[i].ts \notin ParsableTs
    /\ pc' = "aborted"
    /\ UNCHANGED <<inputs, fs, out, run, channels_to_process, processed_channels,
                   viewer, locals_channel, locals_message, fs_start, events, history>>

\* main after its loop over the channels
main_finish ==
    /\ pc = "main"
    /\ channels_to_process = <<>>
    /\ pc' = "exit"
    /\ UNCHANGED <<inputs, fs, out, run, channels_to_process, processed_channels,
                   viewer, locals_channel, locals_message, fs_start, events, history>>

Next ==
    \/ main_start
    \/ process_channel_start
    \/ process_message_start
    \/ resolve_file
    \/ process_message_end
    \/ process_channel_finish
    \/ process_channel_abort
    \/ main_finish

Spec == Init /\ [][Next]_vars

\* ============================================================ properties
\* The resolutions to look at: those of the finished process_channel calls
\* and those of the call in progress.
Resolutions ==
    UNION {{history[i].events[k] : k \in 1..Len(history[i].events)}
              : i \in 1..Len(history)}
    \cup {events[k] : k \in 1..Len(events)}

\* The number of fetch attempts for identity id in a list of resolutions
Fetches(evs, id) == Cardinality({k \in 1..Len(evs) : evs[k].file_id = id /\ evs[k].requested})

\* A reference download_file would fetch: a Slack-hosted http(s) URL and a
\* mode that does not say the file is gone
Eligible(file_info) ==
    /\ file_info.url_private # <<>>
    /\ file_info.url_private[1] \in {"http://", "https://"}
    /\ \E i \in 1..Len(file_info.url_private) :
          file_info.url_private[i] \in {"slack.com", "slack-edge.com"}
    /\ file_info.mode \notin {"tombstone", "hidden_by_limit"}

\* The identities all of whose references in a list of resolutions are
\* eligible
EligibleIds(evs) ==
    {id \in {evs[k].file_id : k \in 1..Len(evs)} :
        \A k \in 1..Len(evs) : evs[k].file_id = id => Eligible(evs[k].file_info)}

\* C1 (as claimed): in every finished process_channel call, an identity
\* whose references are all eligible and that has no file in the channel's
\* files directory when the call starts is fetched exactly once, whatever
\* the fetches do.
C1_ExactlyOneFetch ==
    \A i \in 1..Len(history) :
        \A id \in EligibleIds(history[i].events) :
            Matches(id, history[i].fs_start) = {} => Fetches(history[i].events, id) = 1

\* C2 (as claimed): when a channel is processed again, every reference that
\* the earlier call resolved to a local path is resolved without a fetch and
\* to the same local path.
C2_IdempotentRerun ==
    \A i, j \in 1..Len(history) :
        (i < j /\ history[i].channel = history[j].channel) =>
            \A k \in 1..Len(history[i].events) :
                ~history[i].events[k].file.local_path.none =>
                    /\ ~history[j].events[k].requested
                    /\ history[j].events[k].file.local_path
                         = history[i].events[k].file.local_path

\* C3: every processed file has either a local path or download_failed, not
\* both and not neither, and has a failure reason exactly when
\* download_failed is set.
C3_ResolutionComplete ==
    \A e \in Resolutions :
        /\ (~e.file.local_path.none) # e.file.download_failed
        /\ (e.file.failure_reason # NoName) = e.file.download_failed

\* C3 witness: references were resolved on four branches: a fetch that
\* failed, a fetch that succeeded, a reference that is not fetched because
\* of its mode, and a file found in the files directory.
C3_Witness ==
    /\ \E e \in Resolutions : e.branch = "download_failed" /\ e.requested
    /\ \E e \in Resolutions : e.branch = "downloaded" /\ e.requested
    /\ \E e \in Resolutions : e.branch = "skipped"
    /\ \E e \in Resolutions : e.branch = "exists"

\* C4 (as claimed): the identity of every resolved reference, direct or
\* nested, is its id when that is not empty and the MD5 digest of its URL
\* otherwise.
C4_IdentityIsIdOrDigest ==
    \A e \in Resolutions :
        e.file_id = IF e.file_info.id # <<>> THEN e.file_info.id
                    ELSE md5(e.file_info.url_private)

\* A message of the sorted list without the has_replies key it was given
Unmarked(m) == [k \in DOMAIN m \ {"has_replies"} |-> m[k]]

\* The position in a list of loaded messages of the message that a message
\* of the sorted list was (0 when it is none of them)
LoadIndex(h, m) ==
    IF \E k \in 1..Len(h.loaded) : h.loaded[k] = Unmarked(m)
    THEN CHOOSE k \in 1..Len(h.loaded) : h.loaded[k] = Unmarked(m)
    ELSE 0

\* C5: the list handed to the renderers is non-decreasing by numeric
\* timestamp, is a permutation of the loaded messages, and keeps messages of
\* equal numeric timestamp in the order they were loaded.
C5_SortedStablePermutation ==
    \A i \in 1..Len(history) :
        LET h == history[i]
            n == Len(h.messages)
        IN  /\ n = Len(h.loaded)
            /\ \A a \in 1..n : LoadIndex(h, h.messages[a]) # 0
            /\ \A a, b \in 1..n :
                  a < b =>
                    /\ float(h.messages[a].ts) <= float(h.messages[b].ts)
                    /\ LoadIndex(h, h.messages[a]) # LoadIndex(h, h.messages[b])
                    /\ float(h.messages[a].ts) = float(h.messages[b].ts)
                         => LoadIndex(h, h.messages[a]) < LoadIndex(h, h.messages[b])

\* C5 witness: a channel was sorted whose messages were loaded out of
\* timestamp order and two of which have the same numeric timestamp from
\* different strings.
C5_Witness ==
    \E i \in 1..Len(history) :
        LET l == history[i].loaded
        IN  /\ \E a, b \in 1..Len(l) : a < b /\ float(l[a].ts) > float(l[b].ts)
            /\ \E a, b \in 1..Len(l) :
                  a < b /\ float(l[a].ts) = float(l[b].ts) /\ l[a].ts # l[b].ts

\* The number of loaded messages that are replies in thread key
ReplyCount(h, key) ==
    Cardinality({k \in 1..Len(h.loaded) :
                    h.loaded[k].thread_ts = key /\ h.loaded[k].ts # key})

\* The thread keys of a channel: the thread_ts values of its messages
ThreadKeys(h) ==
    {h.loaded[k].thread_ts : k \in 1..Len(h.loaded)} \ {Absent, ""}

\* The page and the transcript process_channel wrote for the last finished
\* call
LastPage == out[Last(history).channel].html[1]
LastTranscript == out[Last(history).channel].txt[1]

\* C6: the reply count recorded for a thread key, and the one the page
\* shows under the message with that timestamp, is the number of loaded
\* messages that have the key as thread_ts and another ts; a message has
\* has_replies exactly when that number for its own ts is not 0.
C6_ReplyCounting ==
    /\ \A i \in 1..Len(history) :
          LET h == history[i]
          IN  /\ DOMAIN h.thread_reply_counts = ThreadKeys(h)
              /\ \A key \in ThreadKeys(h) :
                    h.thread_reply_counts[key] = ReplyCount(h, key)
              /\ \A a \in 1..Len(h.messages) :
                    h.messages[a].has_replies = (ReplyCount(h, h.messages[a].ts) > 0)
    /\ history # <<>> =>
          \A a \in 1..Len(LastPage.entries) :
              LastPage.entries[a].reply_count
                = ReplyCount(Last(history), LastPage.entries[a].msg.ts)

\* C6 witness: a thread with a parent that names itself as thread key and
\* two replies, shown with reply count 2, beside a message without replies.
C6_Witness ==
    /\ history # <<>>
    /\ \E key \in ThreadKeys(Last(history)) :
          /\ ReplyCount(Last(history), key) = 2
          /\ \E a \in 1..Len(LastPage.entries) :
                /\ LastPage.entries[a].msg.ts = key
                /\ LastPage.entries[a].msg.thread_ts = key
                /\ LastPage.entries[a].msg.has_replies
                /\ LastPage.entries[a].reply_count = 2

\* The messages of a list the claim C7 puts at top level: no thread key, or
\* a thread key that is the message's own timestamp
ClaimedTopLevel(messages) ==
    SelectSeq(messages,
              LAMBDA m : m.thread_ts \in {Absent, ""} \/ m.thread_ts = m.ts)

\* C7: the messages at top level of the page and of the transcript are, in
\* sorted order, the messages without thread key or whose timestamp is
\* their thread key.
C7_TopLevel ==
    history # <<>> =>
        /\ [a \in 1..Len(LastPage.entries) |-> LastPage.entries[a].msg]
             = ClaimedTopLevel(Last(history).messages)
        /\ [a \in 1..Len(LastTranscript) |-> LastTranscript[a].msg]
             = ClaimedTopLevel(Last(history).messages)

\* C7 witness: a page with a parent that names itself as thread key at top
\* level, a message without thread key at top level, and a reply that is
\* not at top level.
C7_Witness ==
    /\ history # <<>>
    /\ \E a \in 1..Len(LastPage.entries) :
          LastPage.entries[a].msg.thread_ts = LastPage.entries[a].msg.ts
    /\ \E a \in 1..Len(LastPage.entries) : LastPage.entries[a].msg.thread_ts = Absent
    /\ Len(LastPage.entries) < Len(Last(history).messages)

\* C8 (as claimed): a reference with mode tombstone or hidden_by_limit, for
\* whose identity no file was written to the files directory, is resolved
\* as failed without local path, with the mode in the failure reason, with
\* a record tagged with the mode in the missing log, and without a fetch.
C8_GoneModesFail ==
    \A e \in Resolutions :
        (e.file_info.mode \in {"tombstone", "hidden_by_limit"} /\ ~e.owned) =>
            /\ e.file.download_failed
            /\ e.file.local_path.none
            /\ Contains(e.file.failure_reason, e.file_info.mode)
            /\ e.missing = <<LogRecord(e.ts, e.file_id, e.file_info.mode)>>
            /\ ~e.requested

\* The records the resolutions of the call in progress put into a log
RECURSIVE Logged(_, _)
Logged(evs, log) ==
    IF evs = <<>> THEN <<>>
    ELSE Logged(Front(evs), log)
         \o (IF log = "downloaded" THEN Last(evs).downloaded ELSE Last(evs).missing)

IsSuffix(t, s) == Len(t) <= Len(s) /\ SubSeq(s, Len(s) - Len(t) + 1, Len(s)) = t

\* C9: a reference for whose identity get_file_path finds a file is
\* resolved to that file and not failed, with one record tagged exists in
\* the downloaded log, none in the missing log and no fetch, whatever its
\* URL and mode.
C9_CacheHit ==
    /\ \A e \in Resolutions :
          e.existing # NonePath =>
            /\ e.file.local_path = LocalPath(<<"files/">> \o e.existing.file)
            /\ ~e.file.download_failed
            /\ e.downloaded = <<LogRecord(e.ts, e.file_id, "exists")>>
            /\ e.missing = <<>>
            /\ ~e.requested
    /\ pc \in {"load", "files"} =>
          /\ IsSuffix(Logged(events, "downloaded"), channel_downloaded_files[channel])
          /\ IsSuffix(Logged(events, "missing"), channel_missing_files[channel])

\* C9 witness: a tombstoned reference and a reference with a fetchable URL
\* were both resolved to files found in the files directory.
C9_Witness ==
    /\ \E e \in Resolutions :
          e.existing # NonePath /\ e.file_info.mode = "tombstone"
    /\ \E k \in 1..Len(events) :
          /\ events[k].existing # NonePath
          /\ Eligible(events[k].file_info)
          /\ Last(channel_downloaded_files[channel]).mode = "exists"

\* C10: download_file lets no exception escape, and returns (None, False)
\* for every transport failure.
C10_FetcherNeverRaises ==
    /\ pc # "crashed"
    /\ call.made =>
          /\ ~call.result.escaped
          /\ call.result.success \in BOOLEAN
          /\ call.result.path.kind \in {"none", "path", "url"}
          /\ call.outcome \in TransportFailures =>
                call.result.path = NonePath /\ ~call.result.success

\* C10 witness: download_file has returned from a fetch that failed with an
\* I/O error while the body was copied.
C10_Witness == call.made /\ call.outcome = "io_error" /\ ~call.result.success

\* The tokens that begin the path of a URL of the model
PathTokens == {"/", "/x", "/y", "/z", "/w", "/v"}

\* The host of a URL: the tokens between the scheme and the path
Host(url) ==
    IF \E k \in 2..Len(url) : url[k] \in PathTokens
    THEN SubSeq(url, 2, (CHOOSE k \in 2..Len(url) :
                            /\ url[k] \in PathTokens
                            /\ \A j \in 2..(k - 1) : url[j] \notin PathTokens) - 1)
    ELSE SubSeq(url, 2, Len(url))

\* An http(s) URL whose host is one of the trusted domains or below one
TrustedHost(url) ==
    /\ url # <<>>
    /\ url[1] \in {"http://", "https://"}
    /\ Host(url) # <<>>
    /\ Last(Host(url)) \in {"slack.com", "slack-edge.com"}

\* C11 (as claimed): a download_file call for a URL that is empty, is not
\* http(s) or whose host is not a trusted domain makes no request, writes
\* no file and returns success; so a request is made only for URLs with a
\* trusted host.
C11_AllowListPassThrough ==
    \A e \in Resolutions :
        (e.called /\ ~TrustedHost(e.file_info.url_private)) =>
            /\ ~e.call.requested
            /\ e.call.written = {}
            /\ e.call.success

\* The file references of a list of messages, in the order process_message
\* meets them
RECURSIVE AllRefs(_)
AllRefs(msgs) ==
    IF msgs = <<>> THEN <<>> ELSE AllFiles(Head(msgs)) \o AllRefs(Tail(msgs))

\* The file references of a list of resolutions
RefsOf(evs) == [k \in 1..Len(evs) |-> <<evs[k].file_info, evs[k].is_attachment>>]

\* C12: no exception leaves process_message; a reference that is not
\* resolved to a file is resolved with download_failed and a failure reason
\* that is not empty; and process_channel resolves every file reference of
\* every message of the channel, whatever the earlier ones did: while it
\* loads, the references resolved and those still to come are the
\* references of the channel, and a finished call has resolved them all.
C12_FailuresAbsorbed ==
    /\ pc # "crashed"
    /\ \A e \in Resolutions :
          (e.branch \in {"skipped", "download_failed"} \/ (e.called /\ ~e.call.success)) =>
            /\ e.file.download_failed
            /\ e.file.failure_reason \notin {NoName, <<>>}
    /\ pc \in {"load", "files", "aborted"} =>
          /\ RefsOf(events) \o all_files
                \o AllRefs(IF pc = "files" THEN Tail(pending) ELSE pending)
               = AllRefs(Loaded(export[channel]))
          /\ Len(all_messages) + Len(pending) = Len(Loaded(export[channel]))
    /\ \A i \in 1..Len(history) :
          /\ RefsOf(history[i].events) = AllRefs(Loaded(export[history[i].channel]))
          /\ Len(history[i].loaded) = Len(Loaded(export[history[i].channel]))

\* C12 witness: a finished process_channel call whose first reference was
\* fetched and failed, whose second was not fetched because of its mode,
\* and that kept both messages.
C12_Witness ==
    \E i \in 1..Len(history) :
        /\ Len(history[i].events) >= 2
        /\ history[i].events[1].branch = "download_failed"
        /\ history[i].events[1].call.requested
        /\ history[i].events[2].branch = "skipped"
        /\ Len(history[i].loaded) = 2

\* The positions in the load order of a finished call's channel of the
\* messages the export gives no ts
NoTsAt(h) ==
    {k \in 1..Len(h.loaded) : Loaded(export[h.channel])[k].ts = Absent}

\* The position in the sorted list of the message loaded at position k
SortedIndex(h, k) == CHOOSE a \in 1..Len(h.messages) : LoadIndex(h, h.messages[a]) = k

\* C13: a message without ts is processed with ts "0": it is kept, the
\* channel is processed to its end, in the sorted list it is before every
\* message with a timestamp of the export, and the log records of its files
\* have timestamp "0" (in the logs of the run that resolved them).
C13_MissingTsIsZero ==
    /\ (pc = "files" /\ Head(pending).ts = Absent) =>
          /\ msg.ts = "0"
          /\ \A k \in 1..Len(events) :
                events[k].text = msg.text =>
                  \A r \in 1..Len(events[k].downloaded \o events[k].missing) :
                      (events[k].downloaded \o events[k].missing)[r].timestamp = "0"
    /\ \A i \in 1..Len(history) :
          LET h == history[i]
          IN  \A k \in NoTsAt(h) :
                /\ h.loaded[k].ts = "0"
                /\ \E a \in 1..Len(h.messages) : LoadIndex(h, h.messages[a]) = k
                /\ \A j \in (1..Len(h.loaded)) \ NoTsAt(h) :
                      SortedIndex(h, k) < SortedIndex(h, j)
                /\ \A e \in 1..Len(h.events) :
                      h.events[e].text = h.loaded[k].text =>
                        /\ h.events[e].ts = "0"
                        /\ h.run = run => \E r \in 1..Len(channel_downloaded_files[h.channel]
                                              \o channel_missing_files[h.channel]) :
                              (channel_downloaded_files[h.channel]
                                 \o channel_missing_files[h.channel])[r]
                                = [timestamp |-> "0", file_id |-> h.events[e].file_id,
                                   mode |-> (h.events[e].downloaded
                                               \o h.events[e].missing)[1].mode]

\* C13 witness: a finished call of a channel whose second message has no
\* ts and a file: the message is first in the sorted list and its file has
\* a log record.
C13_Witness ==
    \E i \in 1..Len(history) :
        /\ 2 \in NoTsAt(history[i])
        /\ history[i].messages[1].text = 2
        /\ history[i].messages[1].ts = "0"
        /\ Len(history[i].events) = 1
        /\ history[i].events[1].ts = "0"

\* The channels named on the command line
Named == {argv[i] : i \in 1..Len(argv)}

\* A channel with a message whose ts float() rejects
HasUnparsableTs(c) ==
    \E k \in 1..Len(Loaded(export[c])) :
        Loaded(export[c])[k].ts \notin ParsableTs \cup {Absent}

\* A run of main has ended, by its return or by an exception
RunEnded == (pc = "exit" /\ run > 0) \/ pc \in {"aborted", "crashed"}

\* C14 (as claimed): when a run has ended, a named channel with a message
\* whose ts is not a number has no channel page, and every other named
\* channel that has a directory in the export has been processed and has
\* its page and transcript.
C14_UnparsableTsFatalForChannelOnly ==
    RunEnded =>
        \A c \in Named \cap data_dirs :
            IF HasUnparsableTs(c)
            THEN out[c].html = <<>>
            ELSE out[c].html # <<>> /\ out[c].txt # <<>>

\* C15: process_channel for a channel without directory in the export
\* resolves nothing, appends to no log, writes no file of the channel and
\* returns, and main goes on with the next channel; a run that returns has
\* written the page and the transcript of every named channel that has a
\* directory.
C15_MissingDirectorySkipped ==
    /\ [](pc = "exit" /\ run > 0 =>
            \A c \in Named \cap data_dirs : out[c].html # <<>> /\ out[c].txt # <<>>)
    /\ [][(pc = "main" /\ channels_to_process # <<>>
            /\ Head(channels_to_process) \notin data_dirs) =>
              /\ UNCHANGED <<fs, out, viewer, events, history>>
              /\ channels_to_process' = Tail(channels_to_process)
              /\ pc' = "main"]_vars

\* C15 witness: a run has returned in which the first named channel has no
\* directory and no output, and the channel after it has its page.
C15_Witness ==
    /\ pc = "exit"
    /\ Len(processed_channels) = 2
    /\ processed_channels[1] \notin data_dirs
    /\ out[processed_channels[1]] = NoOutput
    /\ fs[processed_channels[1]] = {}
    /\ processed_channels[2] \in data_dirs
    /\ out[processed_channels[2]].html # <<>>

IsPrefix(t, s) == Len(t) <= Len(s) /\ SubSeq(s, 1, Len(t)) = t

\* C16: every resolution makes one record, with the message's ts and the
\* identity of the lookup: in the downloaded log, tagged exists or
\* downloaded, when the reference has a local path; in the missing log
\* when it has failed, tagged download_failed after a download_file call,
\* and else with the mode or, without mode (and so without URL), with
\* url_missing.  A step that resolves a reference appends that record and
\* nothing else to the logs of the channel, and during a run the logs only
\* grow.
C16_OutcomeLogging ==
    /\ [](\A e \in Resolutions :
            LET recs == e.downloaded \o e.missing
                mode == e.file_info.mode
            IN  /\ Len(recs) = 1
                /\ recs[1].timestamp = e.ts
                /\ recs[1].file_id = e.file_id
                /\ IF ~e.file.local_path.none
                   THEN /\ e.missing = <<>>
                        /\ ~e.file.download_failed
                        /\ recs[1].mode = IF e.called THEN "downloaded" ELSE "exists"
                   ELSE /\ e.downloaded = <<>>
                        /\ e.file.download_failed
                        /\ recs[1].mode =
                              IF e.called THEN "download_failed"
                              ELSE IF mode # "" THEN mode ELSE "url_missing"
                        /\ recs[1].mode = "url_missing" => e.file_info.url_private = <<>>)
    /\ [][Len(events') = Len(events) + 1 =>
            /\ channel_downloaded_files'[channel]
                 = channel_downloaded_files[channel] \o Last(events').downloaded
            /\ channel_missing_files'[channel]
                 = channel_missing_files[channel] \o Last(events').missing
            /\ Last(events').ts = msg.ts
            /\ Last(events').existing
                 \in get_file_path(Last(events').file_id, channel, fs[channel])]_vars
    /\ [][run' = run =>
            \A c \in Channels :
                /\ IsPrefix(channel_downloaded_files[c], channel_downloaded_files'[c])
                /\ IsPrefix(channel_missing_files[c], channel_missing_files'[c])]_vars

\* C16 witness: resolutions have made a download_failed and a tombstone
\* record for the missing log, and a downloaded and an exists record for
\* the downloaded log, the last of them in the log of the run in progress.
C16_Witness ==
    /\ \E e \in Resolutions : e.missing # <<>> /\ e.missing[1].mode = "download_failed"
    /\ \E e \in Resolutions : e.missing # <<>> /\ e.missing[1].mode = "tombstone"
    /\ \E e \in Resolutions : e.downloaded # <<>> /\ e.downloaded[1].mode = "downloaded"
    /\ \E c \in Channels :
          /\ channel_downloaded_files[c] # <<>>
          /\ Last(channel_downloaded_files[c]).mode = "exists"
    /\ \E e \in Resolutions : e.downloaded # <<>> /\ e.downloaded[1].mode = "exists"

\* The entries of the page and of the transcript of the last finished call
LastEntries ==
    {LastPage.entries[a] : a \in 1..Len(LastPage.entries)}
    \cup {LastTranscript[a] : a \in 1..Len(LastTranscript)}

\* C17: the page and the transcript put a thread block under a top-level
\* message exactly when a loaded message has the message's ts as thread key
\* and another ts; the thread count of the page is the number of thread
\* keys with such a message, so a thread that is only a parent naming
\* itself is not counted.
C17_ThreadSurfacing ==
    history # <<>> =>
        /\ \A e \in LastEntries :
              e.thread_ui = (ReplyCount(Last(history), e.msg.ts) > 0)
        /\ LastPage.thread_count
             = Cardinality({key \in ThreadKeys(Last(history)) :
                               ReplyCount(Last(history), key) > 0})

\* C17 witness: a page with a parent that names itself as thread key and
\* has no reply, shown without thread block, and a message with a reply,
\* shown with one; the page counts one thread.
C17_Witness ==
    /\ history # <<>>
    /\ \E a \in 1..Len(LastPage.entries) :
          /\ LastPage.entries[a].msg.thread_ts = LastPage.entries[a].msg.ts
          /\ ~LastPage.entries[a].thread_ui
    /\ \E a \in 1..Len(LastPage.entries) : LastPage.entries[a].thread_ui
    /\ LastPage.thread_count = 1

\* The loaded messages that are replies under the message with timestamp ts
RepliesLoaded(h, ts) ==
    {k \in 1..Len(h.loaded) : h.loaded[k].thread_ts = ts /\ h.loaded[k].ts # ts}

\* C19: the replies shown in a thread block are the loaded messages with
\* the parent's ts as thread key and another ts, each once, in
\* non-decreasing order of numeric timestamp, and the reply count shown is
\* their number.
C19_OrderedReplies ==
    history # <<>> =>
        \A e \in LastEntries :
            e.thread_ui =>
              LET h == Last(history)
                  n == Len(e.replies)
              IN  /\ n = Cardinality(RepliesLoaded(h, e.msg.ts))
                  /\ e.reply_count = n
                  /\ \A k \in RepliesLoaded(h, e.msg.ts) :
                        \E a \in 1..n : Unmarked(e.replies[a]) = h.loaded[k]
                  /\ \A a, b \in 1..n :
                        a < b => float(e.replies[a].ts) <= float(e.replies[b].ts)

\* C19 witness: the messages ts 3 (thread 1), ts 1, ts 2 (thread 1), loaded
\* in that order, give one top-level message, ts 1, with the replies ts 2
\* and ts 3 in that order and reply count 2, on the page and in the
\* transcript.
C19_Witness ==
    /\ history # <<>>
    /\ [k \in 1..Len(Last(history).loaded) |->
          <<Last(history).loaded[k].ts, Last(history).loaded[k].thread_ts>>]
         = << <<"3", "1">>, <<"1", Absent>>, <<"2", "1">> >>
    /\ Len(LastPage.entries) = 1
    /\ LastPage.entries[1].msg.ts = "1"
    /\ [a \in 1..Len(LastPage.entries[1].replies) |-> LastPage.entries[1].replies[a].ts]
         = <<"2", "3">>
    /\ LastPage.entries[1].reply_count = 2
    /\ LastTranscript[1].replies = LastPage.entries[1].replies

\* download_file has just returned from a fetch with the given outcome, for
\* the reference of the last resolution
JustFetched(outcome) ==
    /\ pc = "files"
    /\ events # <<>>
    /\ Last(events).called
    /\ call.made
    /\ call.outcome = outcome

\* C18: when the fetch has written an empty file, download_file returns
\* (None, False), the reference is resolved as failed with a
\* download_failed record in the missing log, and channel_files has no
\* entry for the identity.
C18_EmptyResultFails ==
    JustFetched("empty") =>
        /\ call.result.path = NonePath
        /\ ~call.result.success
        /\ Last(events).file.download_failed
        /\ Last(events).file.local_path.none
        /\ Last(events).downloaded = <<>>
        /\ Last(channel_missing_files[channel])
             = [timestamp |-> msg.ts, file_id |-> Last(events).file_id,
                mode |-> "download_failed"]
        /\ \A p \in channel_files[channel] : p[1] # Last(events).file_id

\* C18 witness: a fetch has written an empty file.
C18_Witness ==
    /\ JustFetched("empty")
    /\ \E x \in fs[channel] : x.content = "empty" /\ x.owner = Last(events).file_id

\* The name the claim C20 gives the file of a reference
ClaimedName(e) ==
    LET name == IF e.file_info.name = NoName THEN <<"Unnamed file">> ELSE e.file_info.name
        url == e.file_info.url_private
    IN  IF name # <<>> THEN e.file_id \o <<"-">> \o name
        ELSE IF Last(url) \in ExtTokens THEN e.file_id \o <<Last(url)>>
        ELSE e.file_id \o <<".unknown">>

\* C20: a fetched file is in the channel's files directory under the
\* identity, "-" and the display name, or without display name under the
\* identity and the extension of the URL or .unknown; and right after the
\* fetch get_file_path finds for the identity that file and no other.
C20_DestinationName ==
    JustFetched("ok") =>
        /\ call.result.path = FilePath(channel, ClaimedName(Last(events)))
        /\ \E x \in fs[channel] :
              x.file = ClaimedName(Last(events)) /\ x.content = "full"
        /\ get_file_path(Last(events).file_id, channel, fs[channel])
             = {call.result.path}

\* C20 witness: a file with display name and then a file without were
\* fetched; the directory has both under their names.
C20_Witness ==
    /\ JustFetched("ok")
    /\ Last(events).file_info.name = <<>>
    /\ fs[channel] =
          {[file |-> <<"F1", "2", "-", "a", ".png">>, content |-> "full", owner |-> IdF12],
           [file |-> <<"F3", ".png">>, content |-> "full", owner |-> IdF3]}

\* ------------------------------------------------------------------ C21
\* The messages of all_messages with thread key t, in the order of
\* all_messages
Grouped(t) == SelectSeq(all_messages, LAMBDA m : m.thread_ts = t)

\* A message that process_message has returned: its files list has an
\* entry with a local_path field for every file of the loaded message.
IsResolved(m, raw) ==
    /\ Len(m.files) = Len(raw.files) + Len(NestedFiles(raw.attachments))
    /\ \A i \in 1..Len(m.files) : "local_path" \in DOMAIN m.files[i]

ReportOf(log) == [i \in 1..Len(log) |-> CsvRow(SortByTimestamp(log)[i])]

\* C22: during a process_channel call the logs of its channel hold the
\* records of the resolutions of that call and no others, and a report the
\* call has written has the rows of those records.
C22_FreshLogs ==
    /\ pc \in {"load", "files"} =>
          /\ channel_missing_files[channel] = Logged(events, "missing")
          /\ channel_downloaded_files[channel] = Logged(events, "downloaded")
    /\ (/\ pc = "main"
        /\ history # <<>>
        /\ Last(history).run = run
        /\ processed_channels # <<>>
        /\ Last(processed_channels) = Last(history).channel) =>
          LET h == Last(history)
          IN  /\ Logged(h.events, "missing") # <<>> =>
                    out[h.channel].missing_csv = ReportOf(Logged(h.events, "missing"))
              /\ Logged(h.events, "downloaded") # <<>> =>
                    out[h.channel].downloaded_csv = ReportOf(Logged(h.events, "downloaded"))

\* ------------------------------------------------------------------ C23
\* The keys process_message adds to a file record
ResolutionKeys == {"local_path", "download_failed", "failure_reason"}

NamesIn(c) == {x.file : x \in fs[c]}

\* C24: a resolution for a channel leaves the files directory, the logs
\* and the channel_files entry of every other channel as they were; the
\* file a lookup finds, the file a fetch writes and the path channel_files
\* records are in the files directory of the channel of the call; the
\* local path of the resolved entry of a found or fetched file is inside
\* files/ of that channel.
C24_ChannelIsolation ==
    /\ [](pc \in {"load", "files"} =>
            \A k \in 1..Len(events) :
               LET e == events[k]
               IN  /\ e.existing # NonePath =>
                         /\ e.existing.channel = channel
                         /\ e.existing.file \in NamesIn(channel)
                         /\ e.file.local_path = LocalPath(<<"files/">> \o e.existing.file)
                   /\ \A x \in e.call.written : x.file \in NamesIn(channel)
                   /\ e.call.track =>
                         /\ e.call.path.channel = channel
                         /\ e.call.path.file \in NamesIn(channel)
                         /\ e.file.local_path = LocalPath(<<"files/">> \o e.call.path.file)
                         /\ <<e.file_id, e.call.path>> \in channel_files[channel])
    /\ [][Len(events') = Len(events) + 1 =>
            \A c \in Channels \ {channel} :
               /\ fs'[c] = fs[c]
               /\ channel_files'[c] = channel_files[c]
               /\ channel_missing_files'[c] = channel_missing_files[c]
               /\ channel_downloaded_files'[c] = channel_downloaded_files[c]]_vars

\* A reference of channel general with the identity of a file that is in
\* the files directory of channel random, and in no file of general's, is
\* not resolved as found.
C24_Witness ==
    /\ pc = "files"
    /\ channel = "general"
    /\ events # <<>>
    /\ Last(events).file_id = IdF1
    /\ Last(events).existing = NonePath
    /\ \E x \in fs["random"] : x.owner = IdF1 /\ StartsWith(x.file, IdF1)
    /\ channel_downloaded_files["random"] # <<>>

\* ------------------------------------------------------------------ C25
\* The resolutions of the call in progress that belong to the message with
\* text t, in the order they were made
EventsOf(t) == SelectSeq(events, LAMBDA e : e.text = t)

\* C25: the files list of a resolved message with d direct and n nested
\* files has d + n entries; entry i <= d is the resolution of the i-th
\* direct file and entry d + j that of the j-th nested file in block
\* order.  Each entry, direct or nested, comes from one iteration of the
\* same loop: the identity is taken, the branch is the one the lookup, the
\* URL and the mode select, a fetch is requested only on the download
\* branch, and one record goes to one of the two logs.
C25_UniformResolution ==
    pc \in {"load", "files"} =>
       \A k \in 1..Len(all_messages) :
          LET raw == WithDefaultTs(Loaded(export[channel])[k])
              nested == NestedFiles(raw.attachments)
              d == Len(raw.files)
              n == Len(nested)
              m == all_messages[k]
              evs == EventsOf(raw.text)
          IN  d + n > 0 =>
                /\ Len(m.files) = d + n
                /\ Len(evs) = d + n
                /\ \A i \in 1..(d + n) :
                      LET source == IF i <= d THEN raw.files[i] ELSE nested[i - d]
                          e == evs[i]
                      IN  /\ e.file_info = source
                          /\ e.is_attachment = (i > d)
                          /\ e.file = m.files[i]
                          /\ e.file_id = FileId(source, i > d)
                          /\ m.files[i].id = e.file_id
                          /\ m.files[i].url_private = source.url_private
                          /\ m.files[i].name = source.name
                          /\ m.files[i].mode = source.mode
                          /\ e.branch \in
                                IF Branch(e.existing, source.url_private, source.mode)
                                      = "download"
                                THEN {"downloaded", "download_failed"}
                                ELSE {Branch(e.existing, source.url_private, source.mode)}
                          /\ e.called = (Branch(e.existing, source.url_private, source.mode)
                                            = "download")
                          /\ Len(e.downloaded) + Len(e.missing) = 1

\* A resolved message with one direct file and three nested files in two
\* attachment blocks: the direct file was fetched, the first nested file
\* has the digest as identity, the second has mode tombstone and the third
\* a URL of another host.
C25_Witness ==
    /\ pc = "load"
    /\ Len(all_messages) = 1
    /\ Len(all_messages[1].files) = 4
    /\ all_messages[1].files[1].id = IdF12
    /\ ~all_messages[1].files[1].download_failed
    /\ all_messages[1].files[2].id = md5(UrlX)
    /\ all_messages[1].files[3].id = IdF1
    /\ all_messages[1].files[4].id = IdF3

\* ------------------------------------------------------------------ C26
\* C26: a fetch that fails leaves no file in the files directory, and
\* every file of a files directory has its whole content, so that no
\* reference is resolved as found because of a failed fetch.
C26_FailedFetchLeavesNothing ==
    /\ \A e \in Resolutions :
          (e.requested /\ ~e.call.success) => e.call.written = {}
    /\ \A c \in Channels : \A x \in fs[c] : x.content = "full"

\* ------------------------------------------------------------------ C27
\* The identities for which the file at path p was stored
OwnersOf(p) == {x.owner : x \in {y \in fs[p.channel] : y.file = p.file}}

\* C27: the file a reference is resolved to as found was stored for the
\* identity of the reference.
C27_IdentityExactHits ==
    \A e \in Resolutions :
       e.branch = "exists" => OwnersOf(e.existing) = {e.file_id}

\* ------------------------------------------------------------------ C29
\* C29: a resolution has the outcome downloaded, with a record tagged
\* downloaded in the downloaded log and a local path in its entry, only
\* when download_file requested the URL, the request succeeded and wrote a
\* file, and the local path is that file's path inside files/.
C29_DownloadedMeansFetched ==
    \A e \in Resolutions :
       e.branch = "downloaded" =>
          /\ e.requested
          /\ e.call.success
          /\ e.call.path.kind = "path"
          /\ \E x \in e.call.written :
                /\ x.content = "full"
                /\ e.file.local_path = LocalPath(<<"files/">> \o x.file)

\* ------------------------------------------------------------------ C28
\* The places of a list of entries where the loaded message with text t is
\* put out: at top level (<<a, 0>>) or as a reply in a thread block
\* (<<a, b>>)
Appearances(entries, t) ==
    {<<a, 0>> : a \in {x \in 1..Len(entries) : entries[x].msg.text = t}}
    \cup UNION {{<<a, b>> : b \in {y \in 1..Len(entries[a].replies) :
                                       entries[a].replies[y].text = t}}
                   : a \in 1..Len(entries)}

\* C28: every loaded message of the last finished call is put out at
\* exactly one place of the page and at exactly one place of the
\* transcript.
C28_RenderedExactlyOnce ==
    (history # <<>> /\ Last(history).loaded # <<>>) =>
       \A k \in 1..Len(Last(history).loaded) :
          LET t == Last(history).loaded[k].text
          IN  /\ Cardinality(Appearances(LastPage.entries, t)) = 1
              /\ Cardinality(Appearances(LastTranscript, t)) = 1

\* ------------------------------------------------------------------ C30
\* The load positions (the texts) of the messages of a list
Texts(msgs) == [i \in 1..Len(msgs) |-> msgs[i].text]

\* C30: the page and the transcript of a finished call put out the same
\* top-level messages in the same order, a thread block under the same of
\* them, and in each block the same replies in the same order.
C30_RenderersAgree ==
    (history # <<>> /\ Last(history).loaded # <<>>) =>
       /\ Len(LastPage.entries) = Len(LastTranscript)
       /\ \A a \in 1..Len(LastTranscript) :
             /\ LastPage.entries[a].msg = LastTranscript[a].msg
             /\ LastPage.entries[a].thread_ui = LastTranscript[a].thread_ui
             /\ Texts(LastPage.entries[a].replies) = Texts(LastTranscript[a].replies)
             /\ LastPage.entries[a].replies = LastTranscript[a].replies

\* A thread block of the page and the transcript with two replies that
\* were loaded in the other order, before their parent.
C30_Witness ==
    /\ history # <<>>
    /\ Last(history).loaded # <<>>
    /\ \E a \in 1..Len(LastTranscript) :
          /\ LastTranscript[a].thread_ui
          /\ Len(LastPage.entries[a].replies) = 2
          /\ LastPage.entries[a].replies[1].text > LastPage.entries[a].replies[2].text
          /\ LastPage.entries[a].msg.text > LastPage.entries[a].replies[1].text

====
